---- MODULE Spec2Model ----
(***************************************************************************)
(* Cart store of the storefront front end: the cart reducer, the          *)
(* localStorage slot it is mirrored to, and the CartProvider effects that  *)
(* load and save it (frontend/src/contexts/CartContext.tsx).               *)
(*                                                                         *)
(* JavaScript values are modelled by tagged records of one shape, so that *)
(* JSON.stringify and JSON.parse are conversions between the in-memory     *)
(* line items (typed records) and the text held by the slot (tagged JSON  *)
(* values), not the identity.                                              *)
(***************************************************************************)
EXTENDS Integers, Sequences, FiniteSets, TLC

\* ---------------------------------------------------------------- bounds
MaxQuantity == 3     \* largest quantity a line is driven to by add / setQuantity
MaxSlotLen  == 2     \* longest array the slot holds before the first startup
MaxWriteFailures == 1  \* number of setItem calls that raise in one behaviour
MaxInFlight == 1     \* createOrder requests pending at once
MaxCartUnits == 2    \* units a cart is driven to in the checkout flow

\* ------------------------------------------------- JavaScript / JSON values
\* A primitive value as it appears in a property of an object.  The tag t is
\* the JavaScript type; "undefined" stands for a property that is missing
\* (reading it yields undefined, and JSON.stringify omits it).
Prim(t, n, s) == [t |-> t, n |-> n, s |-> s]
JNum(n)  == Prim("number", n, "")
JStr(s)  == Prim("string", 0, s)
JNull    == Prim("null", 0, "")
JUndef   == Prim("undefined", 0, "")

\* The properties of an object that the cart reads (types/index.ts CartItem).
Fields(id, name, price, quantity, image) ==
    [id |-> id, name |-> name, price |-> price, quantity |-> quantity, image |-> image]
NoFields == Fields(JUndef, JUndef, JUndef, JUndef, JUndef)

\* One element of a parsed array: an object with its properties, or a
\* primitive (number, string, null), which has none of the properties.
JObj(f)      == [t |-> "object", n |-> 0, s |-> "", f |-> f]
JPrimElem(p) == [t |-> p.t, n |-> p.n, s |-> p.s, f |-> NoFields]

\* The content of the durable slot, i.e. what localStorage.getItem returns:
\*   "absent"  getItem returns null (key never written)
\*   "empty"   the empty string
\*   "garbage" text that is not valid JSON
\*   "value"   valid JSON that is not an array (val)
\*   "array"   valid JSON array (arr)
SlotAbsent   == [kind |-> "absent",  val |-> JPrimElem(JNull), arr |-> <<>>]
SlotEmpty    == [kind |-> "empty",   val |-> JPrimElem(JNull), arr |-> <<>>]
SlotGarbage  == [kind |-> "garbage", val |-> JPrimElem(JNull), arr |-> <<>>]
SlotValue(v) == [kind |-> "value",   val |-> v,                arr |-> <<>>]
SlotArray(a) == [kind |-> "array",   val |-> JPrimElem(JNull), arr |-> a]

\* ------------------------------------------------------------- CartItem
\* In-memory line item as the reducer uses it: id, price and quantity are
\* numbers and name is a string; image is whatever value the object carries.
CartItem(id, name, price, quantity, image) ==
    [id |-> id, name |-> name, price |-> price, quantity |-> quantity, image |-> image]

\* typeof item.<p> for an element of the parsed array.  On null the property
\* access itself raises a TypeError ("throws").
TypeOfProp(elem, p) ==
    IF elem.t = "null" THEN "throws"
    ELSE IF elem.t # "object" THEN "undefined"
    ELSE LET v == elem.f[p] IN
         IF v.t = "null" THEN "object" ELSE v.t

\* The predicate passed to parsed.filter.
\* Variant: the price is compared with the wrong type name.
isCartItem_priceAsString(elem) ==
    /\ TypeOfProp(elem, "id") = "number"
    /\ TypeOfProp(elem, "name") = "string"
    /\ TypeOfProp(elem, "price") = "string"
    /\ TypeOfProp(elem, "quantity") = "number"

\* Variant: the quantity is not checked.
isCartItem_noQuantityCheck(elem) ==
    /\ TypeOfProp(elem, "id") = "number"
    /\ TypeOfProp(elem, "name") = "string"
    /\ TypeOfProp(elem, "price") = "number"

isCartItem(elem) ==
    /\ TypeOfProp(elem, "id") = "number"
    /\ TypeOfProp(elem, "name") = "string"
    /\ TypeOfProp(elem, "price") = "number"
    /\ TypeOfProp(elem, "quantity") = "number"

\* A parsed object seen as a CartItem (LOAD_CART's payload is typed CartItem[]).
toCartItem(elem) ==
    CartItem(elem.f.id.n, elem.f.name.s, elem.f.price.n, elem.f.quantity.n, elem.f.image)

\* JSON.stringify of one line item: numbers and strings are written as they
\* are, and a property whose value is undefined is left out.
stringifyItem(item) ==
    JObj(Fields(JNum(item.id), JStr(item.name), JNum(item.price),
                JNum(item.quantity), item.image))

\* JSON.stringify(items)
stringify(its) == SlotArray([i \in 1..Len(its) |-> stringifyItem(its[i])])

\* JSON.parse(stored): "throws" on text that is not JSON.
parseThrows(stored) == stored.kind \in {"empty", "garbage"}

\* --------------------------------------------------- loadCartFromStorage
\* Result: the array returned (the parsed objects the filter kept) and
\* whether an error left the function.
\* Variant: no try/catch around the parse and the filter.
loadCartFromStorage_noCatch(stored) ==
    IF stored.kind \in {"absent", "empty"} THEN [items |-> <<>>, threw |-> FALSE]
    ELSE IF parseThrows(stored) THEN [items |-> <<>>, threw |-> TRUE]
    ELSE IF stored.kind # "array" THEN [items |-> <<>>, threw |-> FALSE]
    ELSE IF \E i \in 1..Len(stored.arr) : stored.arr[i].t = "null"
         THEN [items |-> <<>>, threw |-> TRUE]
    ELSE [items |-> SelectSeq(stored.arr, isCartItem), threw |-> FALSE]

loadCartFromStorage(stored) ==
    \* if (stored) : null and "" are falsy
    IF stored.kind \in {"absent", "empty"} THEN [items |-> <<>>, threw |-> FALSE]
    \* JSON.parse throws, caught by the catch block
    ELSE IF parseThrows(stored) THEN [items |-> <<>>, threw |-> FALSE]
    \* Array.isArray(parsed) is false: falls through to return []
    ELSE IF stored.kind # "array" THEN [items |-> <<>>, threw |-> FALSE]
    \* the filter callback reads item.id of a null element: TypeError, caught
    ELSE IF \E i \in 1..Len(stored.arr) : stored.arr[i].t = "null"
         THEN [items |-> <<>>, threw |-> FALSE]
    ELSE [items |-> SelectSeq(stored.arr, isCartItem), threw |-> FALSE]

\* ----------------------------------------------------- saveCartToStorage
\* ok is whether localStorage.setItem succeeds (it raises e.g. on quota).
\* Result: the slot afterwards and whether an error left the function.
\* Variant: no try/catch around setItem.
saveCartToStorage_noCatch(slot, its, ok) ==
    IF ok THEN [slot |-> stringify(its), threw |-> FALSE]
    ELSE [slot |-> slot, threw |-> TRUE]

\* Variant: a slot that holds more lines than the cart is not overwritten.
saveCartToStorage_keepsLongerSlot(slot, its, ok) ==
    [slot  |-> IF ~ok THEN slot
               ELSE IF slot.kind = "array" /\ Len(slot.arr) > Len(its) THEN slot
               ELSE stringify(its),
     threw |-> FALSE]

saveCartToStorage(slot, its, ok) ==
    IF ok THEN [slot |-> stringify(its), threw |-> FALSE]
    ELSE [slot |-> slot, threw |-> FALSE]     \* caught and logged

\* ------------------------------------------------------------ CartAction
\* One shape for the five action types; unused parts are left at a default.
NoPayload == [id |-> 0, name |-> "", price |-> 0, image |-> JUndef]
ADD_ITEM(p)             == [type |-> "ADD_ITEM", item |-> p, id |-> 0, quantity |-> 0, payload |-> <<>>]
REMOVE_ITEM(id)         == [type |-> "REMOVE_ITEM", item |-> NoPayload, id |-> id, quantity |-> 0, payload |-> <<>>]
UPDATE_QUANTITY(id, q)  == [type |-> "UPDATE_QUANTITY", item |-> NoPayload, id |-> id, quantity |-> q, payload |-> <<>>]
CLEAR_CART              == [type |-> "CLEAR_CART", item |-> NoPayload, id |-> 0, quantity |-> 0, payload |-> <<>>]
LOAD_CART(its)          == [type |-> "LOAD_CART", item |-> NoPayload, id |-> 0, quantity |-> 0, payload |-> its]

Mutations == {"ADD_ITEM", "REMOVE_ITEM", "UPDATE_QUANTITY", "CLEAR_CART"}

\* ------------------------------------------------------------ cartReducer
MapSeq(s, F(_)) == [i \in 1..Len(s) |-> F(s[i])]

HasId(its, id) == \E i \in 1..Len(its) : its[i].id = id

\* case 'ADD_ITEM'
\* Variant: a new line is appended without looking for an existing one.
reduceAddItem_alwaysAppend(its, p) ==
    Append(its, CartItem(p.id, p.name, p.price, 1, p.image))

\* Variant: a new line starts with quantity 0.
reduceAddItem_newLineQuantityZero(its, p) ==
    IF HasId(its, p.id)
    THEN LET Inc(it) == IF it.id = p.id
                        THEN [it EXCEPT !.quantity = it.quantity + 1]
                        ELSE it
         IN MapSeq(its, Inc)
    ELSE Append(its, CartItem(p.id, p.name, p.price, 0, p.image))

reduceAddItem(its, p) ==
    IF HasId(its, p.id)
    THEN LET Inc(it) == IF it.id = p.id
                        THEN [it EXCEPT !.quantity = it.quantity + 1]
                        ELSE it
         IN MapSeq(its, Inc)
    ELSE Append(its, CartItem(p.id, p.name, p.price, 1, p.image))

\* case 'REMOVE_ITEM'
\* Variant: the filter keeps the matching line instead of the others.
reduceRemoveItem_keepsMatching(its, id) ==
    LET Keep(it) == it.id = id IN SelectSeq(its, Keep)

reduceRemoveItem(its, id) ==
    LET Keep(it) == it.id # id IN SelectSeq(its, Keep)

\* case 'UPDATE_QUANTITY'
reduceUpdateQuantity(its, id, quantity) ==
    LET Set(it) == IF it.id = id THEN [it EXCEPT !.quantity = quantity] ELSE it
        Positive(it) == it.quantity > 0
    IN SelectSeq(MapSeq(its, Set), Positive)

\* case 'CLEAR_CART': return { ...state, items: [] }
\* Variant: only the first line is dropped.
reduceClearCart_dropsFirstLine(its) == IF its = <<>> THEN <<>> ELSE Tail(its)

reduceClearCart(its) == <<>>

cartReducer(its, action) ==
    CASE action.type = "LOAD_CART" -> MapSeq(action.payload, toCartItem)
      [] action.type = "ADD_ITEM" -> reduceAddItem(its, action.item)
      [] action.type = "REMOVE_ITEM" -> reduceRemoveItem(its, action.id)
      [] action.type = "UPDATE_QUANTITY" ->
            reduceUpdateQuantity(its, action.id, action.quantity)
      [] action.type = "CLEAR_CART" -> reduceClearCart(its)
      [] OTHER -> its

\* useEffect(() => saveCartToStorage(state.items), [state.items]) runs after a
\* render in which state.items is a different array object.  Every case of
\* the reducer builds a new array (map, filter, spread, literal, or the
\* payload), so the effect runs after every dispatched action, whether or
\* not the contents differ; only the default case returns the same state.
\* Variant: the effect compares the contents instead of the array object.
saveEffectRuns_onContentChange(before, after, action) == before # after

saveEffectRuns(before, after, action) ==
    action.type \in Mutations \cup {"LOAD_CART"}

\* ------------------------------------------------------ derived reads
\* items.reduce((total, item) => total + item.quantity, 0)
\* Variant: the number of lines.
getItemCount_countsLines(its) == Len(its)

getItemCount(its) ==
    LET acc[k \in 0..Len(its)] ==
            IF k = 0 THEN 0 ELSE acc[k - 1] + its[k].quantity
    IN acc[Len(its)]

\* items.reduce((total, item) => total + (item.price * item.quantity), 0)
\* Variant: the quantity is left out of the product.
getTotalPrice_ignoresQuantity(its) ==
    LET acc[k \in 0..Len(its)] ==
            IF k = 0 THEN 0 ELSE acc[k - 1] + its[k].price
    IN acc[Len(its)]

getTotalPrice(its) ==
    LET acc[k \in 0..Len(its)] ==
            IF k = 0 THEN 0 ELSE acc[k - 1] + (its[k].price * its[k].quantity)
    IN acc[Len(its)]

\* ------------------------------------------------------------------ Header
\* The text of the header's cart link: the word and, when shown, the count
\* in parentheses.
LinkText(word, shown, n) == [word |-> word, count |-> IF shown THEN <<n>> ELSE <<>>]

\* Cart {getItemCount() > 0 && `(${getItemCount()})`}
HeaderCartLink(its) ==
    LinkText("Cart", getItemCount(its) > 0, getItemCount(its))

\* ------------------------------------------------------------- inputs
\* Payloads of addItem as the product pages build them: id, name and price
\* of the product and the URL of its first image ('' when it has none).  Two
\* payloads share id 1 and differ in name, price and image.
Candidates ==
    { [id |-> 1, name |-> "Dress",    price |-> 150, image |-> JStr("a.jpg")],
      [id |-> 1, name |-> "Dress v2", price |-> 175, image |-> JStr("b.jpg")],
      [id |-> 2, name |-> "Bag",      price |-> 20,  image |-> JStr("")] }

Ids == {1, 2}
QuantityInputs == {-3} \cup (0..MaxQuantity)

\* Elements the slot's array may hold before the first startup: well-typed
\* line items (one without image, one with quantity 0), objects with a
\* wrong-typed or missing property, null and a number.
EntryPool ==
    { JObj(Fields(JNum(1), JStr("Dress"), JNum(150), JNum(2), JStr("a.jpg"))),
      JObj(Fields(JNum(2), JStr("Bag"), JNum(20), JNum(1), JUndef)),
      JObj(Fields(JNum(1), JStr("Dress"), JNum(150), JNum(0), JStr("a.jpg"))),
      JObj(Fields(JStr("bad"), JUndef, JUndef, JUndef, JUndef)),
      JObj(Fields(JNum(2), JStr("Bag"), JNum(20), JUndef, JUndef)),
      JPrimElem(JNull),
      JPrimElem(JNum(5)) }

SeqsUpTo(S, n) == UNION { [1..k -> S] : k \in 0..n }

InitialSlots ==
    {SlotAbsent, SlotEmpty, SlotGarbage}
    \cup { SlotValue(v) : v \in { JObj(Fields(JNum(1), JStr("Dress"), JNum(150), JNum(2), JStr("a.jpg"))),
                                  JPrimElem(JNum(5)), JPrimElem(JNull), JPrimElem(JStr("x")) } }
    \cup { SlotArray(a) : a \in SeqsUpTo(EntryPool, MaxSlotLen) }

\* --------------------------------------------------------------- state
VARIABLES
    localStorage,       \* content of the slot CART_STORAGE_KEY
    phase,              \* "unmounted", "loading" (LOAD_CART dispatched, not yet rendered), "ready", "crashed"
    items,              \* state.items of the CartProvider
    pendingLoad,        \* payload of the dispatched LOAD_CART
    failures,           \* setItem calls that raised so far
    lastAction,         \* what the last step was: an action type, "MOUNT", "UNMOUNT" or "none"
    writeFailed,        \* the last step called setItem and it raised
    escaped,            \* an error left loadCartFromStorage / saveCartToStorage
    ifSaved,            \* the reducer's result of the last step, whatever the write did
    contentsUnchanged,  \* the last step's action left the contents of items as they were
    sameIdAdds,         \* [id, n]: the cart was empty and since then exactly n addItem calls, all with this id, were made
    prev,               \* the cart of the previous store instance, when the slot held its serialization at unmount
    stored,             \* what getItem returned at the last store creation, kept until the first mutation
    route,              \* the page shown: "shop" (product and cart pages), "checkout", "confirmation"
    inFlight,           \* the createOrder requests whose response has not arrived
    background,         \* a second tab of the same browser: phase, items, pendingLoad of its CartProvider, and whether its last setItem raised
    auth,               \* AuthProvider, the auth keys of localStorage, the location and the auth calls in flight
    lastWriter          \* the open tab whose setItem succeeded most recently: "this", "other" or "none"

vars == <<localStorage, phase, items, pendingLoad, failures, lastAction, writeFailed,
          escaped, ifSaved, contentsUnchanged, sameIdAdds, prev, stored, route, inFlight,
          background, lastWriter, auth>>

\* What the cart context holds, without the tag of the last step.
cartVars == <<localStorage, phase, items, pendingLoad, failures, writeFailed,
              escaped, ifSaved, contentsUnchanged, sameIdAdds, prev, stored,
              background, lastWriter, auth>>

NoRun  == [id |-> 0, n |-> 0]
NoPrev == [valid |-> FALSE, items |-> <<>>]
NoStored == [known |-> FALSE, slot |-> SlotAbsent]

\* Nothing stored, the application not open, no call in flight.
NoCall == [stage |-> "idle", account |-> "none"]
NoAuth ==
    [token        |-> "none",      \* auth_token: the account the stored token was issued to
     savedUser    |-> "none",      \* auth_user
     accepted     |-> FALSE,       \* the backend accepts the stored token
     open         |-> FALSE,       \* the application is loaded in the tab
     path         |-> "/products", \* window.location.pathname
     user         |-> "none",      \* AuthProvider user
     isLoading    |-> TRUE,        \* AuthProvider isLoading
     initCall     |-> "idle",      \* GET /auth/me of initAuth
     loginCall    |-> NoCall,      \* POST /auth/login, then GET /auth/me, of login
     logoutCall   |-> "idle",      \* POST /auth/logout of logout
     apiCall      |-> "idle",      \* another request of the api service (products, orders)
     verified     |-> FALSE,       \* the stored token was issued or confirmed by the backend since this load
     lastCall     |-> "none",      \* the call whose response the last step handled
     lastStatus   |-> 0,           \* its status
     caught       |-> FALSE,       \* its caller received a rejection
     reload       |-> FALSE]       \* window.location.href was assigned

NoTab == [phase |-> "unmounted", items |-> <<>>, pendingLoad |-> <<>>, writeFailed |-> FALSE]

Init ==
    /\ localStorage \in InitialSlots
    /\ phase = "unmounted"
    /\ items = <<>>
    /\ pendingLoad = <<>>
    /\ failures = 0
    /\ lastAction = "none"
    /\ writeFailed = FALSE
    /\ escaped = FALSE
    /\ ifSaved = <<>>
    /\ contentsUnchanged = FALSE
    /\ sameIdAdds = NoRun
    /\ prev = NoPrev
    /\ stored = NoStored
    /\ route = "shop"
    /\ inFlight = <<>>
    /\ background = NoTab
    /\ lastWriter = "none"
    /\ auth = NoAuth

\* A cart mutation happened while these requests were pending.
Touched(reqs) == [k \in 1..Len(reqs) |-> [reqs[k] EXCEPT !.touched = TRUE]]

\* The page that started these requests is no longer shown.
Disowned(reqs) == [k \in 1..Len(reqs) |-> [reqs[k] EXCEPT !.own = FALSE]]

\* ------------------------------------------------------------- CartProvider
\* A dispatched action is reduced, the provider renders again, and the save
\* effect runs in the same turn.  An error leaving an effect is not caught
\* by any error boundary: React unmounts the tree and the cart is gone.
Render(action, ok) ==
    LET next  == cartReducer(items, action)
        runs  == saveEffectRuns(items, next, action)
        saved == IF runs THEN saveCartToStorage(localStorage, next, ok)
                         ELSE [slot |-> localStorage, threw |-> FALSE]
    IN /\ ok \/ failures < MaxWriteFailures
       /\ failures' = IF runs /\ ~ok THEN failures + 1 ELSE failures
       /\ localStorage' = saved.slot
       /\ escaped' = saved.threw
       /\ items' = IF saved.threw THEN <<>> ELSE next
       /\ phase' = IF saved.threw THEN "crashed" ELSE "ready"
       /\ writeFailed' = (runs /\ ~ok)
       /\ ifSaved' = next
       /\ contentsUnchanged' = (next = items)
       /\ lastAction' = action.type
       /\ pendingLoad' = <<>>
       /\ lastWriter' = IF runs /\ ok THEN "this" ELSE lastWriter
       /\ UNCHANGED <<background, auth>>

\* First render with { items: [] }, then the two effects in source order:
\* the load effect reads the slot and dispatches LOAD_CART when it found
\* items; the save effect writes the items of this render, the empty array.
Mount(ok) ==
    /\ phase = "unmounted"
    /\ ok \/ failures < MaxWriteFailures
    /\ LET savedCart == loadCartFromStorage(localStorage)
           saved == saveCartToStorage(localStorage, <<>>, ok)
           threw == savedCart.threw \/ saved.threw
       IN /\ localStorage' = IF savedCart.threw THEN localStorage ELSE saved.slot
          /\ escaped' = threw
          /\ pendingLoad' = IF threw THEN <<>> ELSE savedCart.items
          /\ phase' = IF threw THEN "crashed"
                      ELSE IF Len(savedCart.items) > 0 THEN "loading" ELSE "ready"
          /\ writeFailed' = (~savedCart.threw /\ ~ok)
          /\ failures' = IF ~savedCart.threw /\ ~ok THEN failures + 1 ELSE failures
          /\ lastWriter' = IF ~savedCart.threw /\ ok THEN "this" ELSE lastWriter
    /\ items' = <<>>
    /\ lastAction' = "MOUNT"
    /\ ifSaved' = <<>>
    /\ contentsUnchanged' = TRUE
    /\ sameIdAdds' = NoRun
    /\ stored' = [known |-> TRUE, slot |-> localStorage]
    /\ UNCHANGED <<prev, route, inFlight, background, auth>>

\* The render caused by the LOAD_CART dispatched at mount.  It is first in
\* the reducer's queue, so it is applied before any action of the user.
LoadCart(ok) ==
    /\ phase = "loading"
    /\ Render(LOAD_CART(pendingLoad), ok)
    /\ sameIdAdds' = NoRun
    /\ UNCHANGED <<prev, stored, route, inFlight>>

addItem(p, ok) ==
    /\ phase = "ready"
    /\ \A i \in 1..Len(items) : items[i].id = p.id => items[i].quantity < MaxQuantity
    /\ Render(ADD_ITEM(p), ok)
    /\ sameIdAdds' = IF items = <<>> THEN [id |-> p.id, n |-> 1]
                     ELSE IF sameIdAdds.id = p.id THEN [id |-> p.id, n |-> sameIdAdds.n + 1]
                     ELSE NoRun
    /\ prev' = NoPrev
    /\ stored' = NoStored
    /\ inFlight' = Touched(inFlight)
    /\ UNCHANGED route

removeItem(id, ok) ==
    /\ phase = "ready"
    /\ Render(REMOVE_ITEM(id), ok)
    /\ sameIdAdds' = NoRun
    /\ prev' = NoPrev
    /\ stored' = NoStored
    /\ inFlight' = Touched(inFlight)
    /\ UNCHANGED route

updateQuantity(id, quantity, ok) ==
    /\ phase = "ready"
    /\ Render(UPDATE_QUANTITY(id, quantity), ok)
    /\ sameIdAdds' = NoRun
    /\ prev' = NoPrev
    /\ stored' = NoStored
    /\ inFlight' = Touched(inFlight)
    /\ UNCHANGED route

clearCart(ok) ==
    /\ phase = "ready"
    /\ Render(CLEAR_CART, ok)
    /\ sameIdAdds' = NoRun
    /\ prev' = NoPrev
    /\ stored' = NoStored
    /\ inFlight' = Touched(inFlight)
    /\ UNCHANGED route

\* The page is closed or reloaded: the in-memory state is gone, the slot stays.
Unmount ==
    /\ phase \in {"loading", "ready"}
    /\ phase' = "unmounted"
    /\ items' = <<>>
    /\ pendingLoad' = <<>>
    /\ prev' = IF phase = "ready" /\ localStorage = stringify(items)
               THEN [valid |-> TRUE, items |-> items] ELSE NoPrev
    /\ lastAction' = "UNMOUNT"
    /\ writeFailed' = FALSE
    /\ ifSaved' = <<>>
    /\ contentsUnchanged' = FALSE
    /\ sameIdAdds' = NoRun
    /\ stored' = NoStored
    /\ inFlight' = <<>>
    /\ lastWriter' = IF lastWriter = "this" THEN "none" ELSE lastWriter
    /\ UNCHANGED <<localStorage, failures, escaped, route, background, auth>>

Next ==
    \/ \E ok \in BOOLEAN : Mount(ok)
    \/ \E ok \in BOOLEAN : LoadCart(ok)
    \/ \E p \in Candidates, ok \in BOOLEAN : addItem(p, ok)
    \/ \E id \in Ids, ok \in BOOLEAN : removeItem(id, ok)
    \/ \E id \in Ids, q \in QuantityInputs, ok \in BOOLEAN : updateQuantity(id, q, ok)
    \/ \E ok \in BOOLEAN : clearCart(ok)
    \/ Unmount

Spec == Init /\ [][Next]_vars

\* ------------------------------------------------------------- CheckoutPage
\* The cart actions each handler of the checkout page dispatches.
\* Variant: the success handler only navigates.
onSuccess_navigatesOnly == <<>>

\* onSuccess: clearCart(); navigate(`/order-confirmation/${order.id}`)
onSuccess == <<CLEAR_CART>>

\* Variant: the failure handler empties the cart.
onError_clearsCart == <<CLEAR_CART>>

\* onError: console.error(...); alert(...)
onError == <<>>

\* Variant: the cart is emptied when the order is sent.
handleSubmitCartActions_clearsOnSubmit == <<CLEAR_CART>>

\* handleSubmit dispatches nothing to the cart.
handleSubmitCartActions == <<>>

\* items.map(item => ({ product_id: item.id, quantity: item.quantity }))
\* Variant: every entry orders one unit.
orderItems_oneUnitEach(its) ==
    [k \in 1..Len(its) |-> [product_id |-> its[k].id, quantity |-> 1]]

orderItems(its) ==
    [k \in 1..Len(its) |-> [product_id |-> its[k].id, quantity |-> its[k].quantity]]

\* A handler runs: the cart actions it dispatches are reduced and saved.
Handled(actions, ok, tag) ==
    IF actions = <<>>
    THEN /\ ok
         /\ lastAction' = tag
         /\ UNCHANGED cartVars
    ELSE /\ Render(actions[1], ok)
         /\ sameIdAdds' = NoRun
         /\ prev' = NoPrev
         /\ stored' = NoStored

WithoutRequest(reqs, k) ==
    [i \in 1..(Len(reqs) - 1) |-> IF i < k THEN reqs[i] ELSE reqs[i + 1]]

\* The form is shown only for a non-empty cart, the submit button is
\* disabled while this page's mutation is pending, and an invalid form
\* returns before anything is sent.
handleSubmit(valid, ok) ==
    /\ phase = "ready"
    /\ route = "checkout"
    /\ Len(items) > 0
    /\ \A k \in 1..Len(inFlight) : ~inFlight[k].own
    /\ IF ~valid
       THEN ok /\ UNCHANGED vars
       ELSE /\ Handled(handleSubmitCartActions, ok, "SUBMIT")
            /\ inFlight' = Append(IF handleSubmitCartActions = <<>>
                                       THEN inFlight ELSE Touched(inFlight),
                                   [order   |-> orderItems(items),
                                    cart    |-> items,
                                    slot    |-> localStorage,
                                    own     |-> TRUE,
                                    touched |-> FALSE])
            /\ UNCHANGED route

\* The form is submitted while fewer than cap requests are pending.
SubmitWithin(cap, valid, ok) ==
    /\ Len(inFlight) < cap
    /\ handleSubmit(valid, ok)

\* The server confirmed request k.  The callbacks are options of the
\* mutation, so they also run when the page that sent it is gone.
OrderSuccess(k, ok) ==
    /\ phase = "ready"
    /\ k \in 1..Len(inFlight)
    /\ Handled(onSuccess, ok, "ORDER_SUCCESS")
    /\ route' = "confirmation"
    /\ inFlight' = LET rest == Disowned(WithoutRequest(inFlight, k))
                   IN IF onSuccess = <<>> THEN rest ELSE Touched(rest)

\* Request k failed.
OrderError(k, ok) ==
    /\ phase = "ready"
    /\ k \in 1..Len(inFlight)
    /\ Handled(onError, ok, "ORDER_ERROR")
    /\ inFlight' = LET rest == WithoutRequest(inFlight, k)
                   IN IF onError = <<>> THEN rest ELSE Touched(rest)
    /\ UNCHANGED route

\* A link of the header or of a page is followed.
navigate(to) ==
    /\ phase \in {"loading", "ready"}
    /\ to # route
    /\ route' = to
    /\ inFlight' = Disowned(inFlight)
    /\ lastAction' = "NAVIGATE"
    /\ UNCHANGED cartVars

\* The checkout flow: the cart is changed on the shop pages only, and
\* clearCart has the success handler as its only caller.  The slot writes
\* of the shop pages succeed here (Spec covers their failure); the write of
\* the success handler may fail.
CheckoutCandidates == { p \in Candidates : p.name # "Dress v2" }
CheckoutQuantities == {0, 1}

\* The buttons of the product list and of the cart page.
handleAddToCart(p) ==
    /\ route = "shop"
    /\ getItemCount(items) < MaxCartUnits
    /\ addItem(p, TRUE)

handleRemove(id) ==
    /\ route = "shop"
    /\ removeItem(id, TRUE)

handleQuantityChange(id, q) ==
    /\ route = "shop"
    /\ updateQuantity(id, q, TRUE)

NextCheckout ==
    \/ \E ok \in BOOLEAN : Mount(ok)
    \/ \E ok \in BOOLEAN : LoadCart(ok)
    \/ \E p \in CheckoutCandidates : handleAddToCart(p)
    \/ \E id \in Ids : handleRemove(id)
    \/ \E id \in Ids, q \in CheckoutQuantities : handleQuantityChange(id, q)
    \/ \E valid, ok \in BOOLEAN : SubmitWithin(MaxInFlight, valid, ok)
    \/ \E k \in 1..MaxInFlight, ok \in BOOLEAN : OrderSuccess(k, ok)
    \/ \E k \in 1..MaxInFlight, ok \in BOOLEAN : OrderError(k, ok)
    \/ \E to \in {"shop", "checkout"} : navigate(to)
    \/ Unmount

InitCheckout ==
    /\ Init
    /\ localStorage \in {SlotAbsent,
                          SlotArray(<<JObj(Fields(JNum(1), JStr("Dress"), JNum(150), JNum(2), JStr("a.jpg")))>>)}

SpecCheckout == InitCheckout /\ [][NextCheckout]_vars

\* The checkout flow with room for one more pending request: the user leaves
\* the checkout page while a request is pending and opens it again.
NextResubmit ==
    \/ \E ok \in BOOLEAN : Mount(ok)
    \/ \E p \in CheckoutCandidates : handleAddToCart(p)
    \/ \E valid, ok \in BOOLEAN : SubmitWithin(MaxInFlight + 1, valid, ok)
    \/ \E k \in 1..(MaxInFlight + 1), ok \in BOOLEAN : OrderSuccess(k, ok)
    \/ \E k \in 1..(MaxInFlight + 1), ok \in BOOLEAN : OrderError(k, ok)
    \/ \E to \in {"shop", "checkout"} : navigate(to)
    \/ Unmount

InitResubmit ==
    /\ Init
    /\ localStorage = SlotAbsent

SpecResubmit == InitResubmit /\ [][NextResubmit]_vars

\* ---------------------------------------------------------------- two tabs
\* Two tabs of one browser run the same application on the same slot; no
\* 'storage' listener exists, so a tab never sees the other's writes after
\* its own mount.  The variables of the CartProvider describe the tab the
\* user is looking at; background holds the other one.
SwitchTab ==
    /\ phase # "crashed"
    /\ background' = [phase |-> phase, items |-> items, pendingLoad |-> pendingLoad,
                      writeFailed |-> writeFailed]
    /\ phase' = background.phase
    /\ items' = background.items
    /\ pendingLoad' = background.pendingLoad
    /\ lastWriter' = CASE lastWriter = "this" -> "other"
                        [] lastWriter = "other" -> "this"
                        [] OTHER -> "none"
    /\ lastAction' = "SWITCH_TAB"
    /\ writeFailed' = background.writeFailed
    /\ ifSaved' = <<>>
    /\ contentsUnchanged' = FALSE
    /\ sameIdAdds' = NoRun
    /\ prev' = NoPrev
    /\ stored' = NoStored
    /\ UNCHANGED <<localStorage, failures, escaped, route, inFlight, auth>>

TabCandidates == { p \in Candidates : p.name # "Dress v2" }

NextTabs ==
    \/ \E ok \in BOOLEAN : Mount(ok)
    \/ \E ok \in BOOLEAN : LoadCart(ok)
    \/ \E p \in TabCandidates, ok \in BOOLEAN :
           getItemCount(items) < MaxCartUnits /\ addItem(p, ok)
    \/ \E id \in Ids, ok \in BOOLEAN : removeItem(id, ok)
    \/ \E ok \in BOOLEAN : clearCart(ok)
    \/ Unmount
    \/ SwitchTab

InitTabs ==
    /\ Init
    /\ localStorage \in {SlotAbsent,
                          SlotArray(<<JObj(Fields(JNum(2), JStr("Bag"), JNum(20), JNum(1), JUndef))>>)}

SpecTabs == InitTabs /\ [][NextTabs]_vars

\* ----------------------------------------------------------- authentication
Accounts == {"alice", "admin"}
is_admin(u) == u = "admin"

ProtectedPaths == {"/checkout", "/orders"}
AdminPaths == {"/admin/products"}
Paths == {"/products", "/login"} \cup ProtectedPaths \cup AdminPaths
Statuses == {200, 401, 500}

\* authStorage.clearAuth: removeToken(), removeUser()
clearAuth(a) ==
    [a EXCEPT !.token = "none", !.savedUser = "none", !.accepted = FALSE, !.verified = FALSE]

\* Variant: only the token is removed on a 401.
responseInterceptor_removesTokenOnly(a, call, status) ==
    LET b == [a EXCEPT !.lastCall = call, !.lastStatus = status, !.caught = (status # 200)]
    IN IF status = 401
       THEN [b EXCEPT !.token = "none", !.accepted = FALSE, !.verified = FALSE,
                      !.reload = (b.path # "/login")]
       ELSE b

\* api.interceptors.response: a 401 clears the auth keys and, away from
\* /login, assigns window.location.href; every error is rejected onwards.
responseInterceptor(a, call, status) ==
    LET b == [a EXCEPT !.lastCall = call, !.lastStatus = status, !.caught = (status # 200)]
    IN IF status = 401
       THEN [clearAuth(b) EXCEPT !.reload = (b.path # "/login")]
       ELSE b

\* ProtectedRoute
ProtectedRoute(a) ==
    IF a.isLoading THEN "loading"
    ELSE IF a.user = "none" THEN "redirect"
    ELSE "children"

\* Variant: the is_admin test is missing.
AdminRoute_noAdminCheck(a) ==
    IF a.isLoading THEN "loading"
    ELSE IF a.user = "none" THEN "redirect"
    ELSE "children"

\* AdminRoute
AdminRoute(a) ==
    IF a.isLoading THEN "loading"
    ELSE IF a.user = "none" THEN "redirect"
    ELSE IF ~is_admin(a.user) THEN "denied"
    ELSE "children"

\* AppContent: the loading screen while isLoading, else the element of the route.
RouteElement(a) ==
    IF ~a.open THEN "nothing"
    ELSE IF a.isLoading THEN "loading"
    ELSE IF a.path \in AdminPaths THEN AdminRoute(a)
    ELSE IF a.path \in ProtectedPaths THEN ProtectedRoute(a)
    ELSE "page"

\* <Navigate to="/login" replace />
Routed(a) == IF RouteElement(a) = "redirect" THEN [a EXCEPT !.path = "/login"] ELSE a

Quiet(a) == [a EXCEPT !.lastCall = "none", !.lastStatus = 0, !.caught = FALSE]

\* The page is loaded at path p: AuthProvider starts with user null and
\* isLoading true, and initAuth runs as its mount effect.
appLoad(a, p) ==
    LET fresh == [a EXCEPT !.open = TRUE, !.path = p, !.user = "none", !.isLoading = TRUE,
                           !.initCall = "idle", !.loginCall = NoCall, !.logoutCall = "idle",
                           !.apiCall = "idle", !.verified = FALSE, !.reload = FALSE]
    IN Routed(IF fresh.token # "none" /\ fresh.savedUser # "none"
              THEN [fresh EXCEPT !.initCall = "pending"]
              ELSE [fresh EXCEPT !.isLoading = FALSE])

\* The end of a handler: an assigned window.location.href loads /login.
Settled(a) == IF a.reload THEN appLoad(a, "/login") ELSE Routed(a)

\* initAuth after await api.getCurrentUser()
initAuthSettled(a, status) ==
    LET b == responseInterceptor([a EXCEPT !.initCall = "idle"], "initAuth", status)
    IN IF ~b.caught
       THEN [b EXCEPT !.user = b.token, !.savedUser = b.token, !.verified = TRUE,
                      !.isLoading = FALSE]
       ELSE [clearAuth(b) EXCEPT !.user = "none", !.isLoading = FALSE]

\* login after await api.login(...)
loginPosted(a, status) ==
    LET b == responseInterceptor(a, "login", status)
    IN IF ~b.caught
       THEN [b EXCEPT !.token = a.loginCall.account, !.accepted = TRUE, !.verified = TRUE,
                      !.loginCall = [stage |-> "me", account |-> a.loginCall.account]]
       ELSE [clearAuth(b) EXCEPT !.loginCall = NoCall]

\* login after await api.getCurrentUser()
loginFetchedUser(a, status) ==
    LET b == responseInterceptor(a, "getCurrentUser", status)
    IN IF ~b.caught
       THEN [b EXCEPT !.user = a.loginCall.account, !.savedUser = a.loginCall.account,
                      !.loginCall = NoCall]
       ELSE [clearAuth(b) EXCEPT !.loginCall = NoCall]

\* Variant: the auth data is cleared only when the backend call succeeded.
logout_clearsOnSuccessOnly(a, status) ==
    LET b == responseInterceptor([a EXCEPT !.logoutCall = "idle"], "logout", status)
    IN IF b.caught THEN b ELSE [clearAuth(b) EXCEPT !.user = "none"]

\* logout after await api.logout(), which swallows the error: finally
\* clearAuth() and setUser(null).
logout(a, status) ==
    LET b == responseInterceptor([a EXCEPT !.logoutCall = "idle"], "logout", status)
    IN [clearAuth(b) EXCEPT !.user = "none"]

storeVars == <<localStorage, phase, items, pendingLoad, failures, lastAction, writeFailed,
               escaped, ifSaved, contentsUnchanged, sameIdAdds, prev, stored, route,
               inFlight, background, lastWriter>>

AppLoad(p) ==
    /\ ~auth.open
    /\ auth' = appLoad(Quiet(auth), p)
    /\ UNCHANGED storeVars

\* The tab is closed or reloaded: the context and the calls are gone, the
\* storage stays.
AppClose ==
    /\ auth.open
    /\ auth' = [Quiet(auth) EXCEPT !.open = FALSE, !.path = "/products", !.user = "none",
                                   !.isLoading = TRUE, !.initCall = "idle",
                                   !.loginCall = NoCall, !.logoutCall = "idle",
                                   !.apiCall = "idle", !.verified = FALSE]
    /\ UNCHANGED storeVars

\* The backend answers GET /auth/me of initAuth: 200 for a token it
\* accepts, 401 for one it rejects, or the call fails otherwise.
InitSettles(status) ==
    /\ auth.open
    /\ auth.initCall = "pending"
    /\ status = 200 => auth.accepted
    /\ status = 401 => ~auth.accepted
    /\ auth' = Settled(initAuthSettled(auth, status))
    /\ UNCHANGED storeVars

\* The login form is on /login; the header and the pages exist once
\* isLoading is false.
LoginSubmit(account) ==
    /\ auth.open
    /\ ~auth.isLoading
    /\ auth.path = "/login"
    /\ auth.loginCall = NoCall
    /\ auth' = [Quiet(auth) EXCEPT !.loginCall = [stage |-> "post", account |-> account]]
    /\ UNCHANGED storeVars

LoginPosted(status) ==
    /\ auth.open
    /\ auth.loginCall.stage = "post"
    /\ auth' = Settled(loginPosted(auth, status))
    /\ UNCHANGED storeVars

LoginFetchedUser(status) ==
    /\ auth.open
    /\ auth.loginCall.stage = "me"
    /\ auth' = Settled(loginFetchedUser(auth, status))
    /\ UNCHANGED storeVars

\* The header shows Logout when user is set.
LogoutClick ==
    /\ auth.open
    /\ ~auth.isLoading
    /\ auth.user # "none"
    /\ auth.logoutCall = "idle"
    /\ auth' = [Quiet(auth) EXCEPT !.logoutCall = "pending"]
    /\ UNCHANGED storeVars

LogoutSettles(status) ==
    /\ auth.open
    /\ auth.logoutCall = "pending"
    /\ auth' = Settled(logout(auth, status))
    /\ UNCHANGED storeVars

\* A page sends another request through the api service (getProducts,
\* getOrders, createOrder, ...); its caller only receives the result.
ApiRequest ==
    /\ auth.open
    /\ ~auth.isLoading
    /\ auth.apiCall = "idle"
    /\ auth' = [Quiet(auth) EXCEPT !.apiCall = "pending"]
    /\ UNCHANGED storeVars

ApiResponds(status) ==
    /\ auth.open
    /\ auth.apiCall = "pending"
    /\ auth' = Settled(responseInterceptor([auth EXCEPT !.apiCall = "idle"], "api", status))
    /\ UNCHANGED storeVars

\* A link is followed or an address is entered in the open application.
GoTo(p) ==
    /\ auth.open
    /\ ~auth.isLoading
    /\ p # auth.path
    /\ auth' = Routed([Quiet(auth) EXCEPT !.path = p])
    /\ UNCHANGED storeVars

\* The stored token runs out (24 hours) or is revoked.
TokenExpires ==
    /\ auth.token # "none"
    /\ auth.accepted
    /\ auth' = [Quiet(auth) EXCEPT !.accepted = FALSE]
    /\ UNCHANGED storeVars

NextAuth ==
    \/ \E p \in Paths : AppLoad(p)
    \/ AppClose
    \/ \E status \in Statuses : InitSettles(status)
    \/ \E account \in Accounts : LoginSubmit(account)
    \/ \E status \in Statuses : LoginPosted(status)
    \/ \E status \in Statuses : LoginFetchedUser(status)
    \/ LogoutClick
    \/ \E status \in Statuses : LogoutSettles(status)
    \/ ApiRequest
    \/ \E status \in Statuses : ApiResponds(status)
    \/ \E p \in Paths : GoTo(p)
    \/ TokenExpires

InitAuth ==
    /\ Init
    /\ localStorage = SlotAbsent

SpecAuth == InitAuth /\ [][NextAuth]_vars

\* ================================================================ claims
StartupStep == lastAction \in {"MOUNT", "LOAD_CART"}
MutationStep == lastAction \in Mutations

\* The structural check of a persisted entry: an object whose id is a number,
\* name a string, price a number and quantity a number.
WellTypedEntry(elem) ==
    /\ elem.t = "object"
    /\ elem.f.id.t = "number"
    /\ elem.f.name.t = "string"
    /\ elem.f.price.t = "number"
    /\ elem.f.quantity.t = "number"

\* C1: in every reachable cart state, also the one installed by loading the
\* slot at startup, every line item has quantity >= 1.
C1_QuantityAtLeastOne ==
    \A i \in 1..Len(items) : items[i].quantity >= 1

\* C2: in every reachable cart state, also the one installed by loading the
\* slot at startup, no two line items have the same id.
C2_UniqueIds ==
    \A i, j \in 1..Len(items) : i # j => items[i].id # items[j].id

\* C3: starting from an empty cart, after n >= 1 addItem calls that all carry
\* the same id, the cart holds exactly one line for that id, with quantity n.
C3_SameIdAddsMerge ==
    sameIdAdds.n >= 1 =>
        /\ Len(items) = 1
        /\ items[1].id = sameIdAdds.id
        /\ items[1].quantity = sameIdAdds.n

C3_Witness ==
    /\ sameIdAdds = [id |-> 1, n |-> MaxQuantity]
    /\ Len(items) = 1
    /\ items[1].quantity = MaxQuantity

\* C4: when a store instance ends with the slot holding the serialization of
\* its cart, the next store instance, once its startup has finished, holds an
\* item collection equal to that cart (same lines, same order).
C4_RoundTrip ==
    (prev.valid /\ phase = "ready" /\ StartupStep) => items = prev.items

C4_Witness ==
    /\ prev.valid
    /\ phase = "ready"
    /\ lastAction = "LOAD_CART"
    /\ Len(items) = 2
    /\ items[1].id = 2
    /\ items[2].quantity = 2
    /\ items = prev.items

Loaded == IF phase = "loading" THEN MapSeq(pendingLoad, toCartItem) ELSE items

\* C6: when the slot holds an array, the loaded cart is exactly the
\* subsequence, in order, of the well-typed entries; a failing entry of any
\* shape (null included) never discards a well-typed entry.
C6_PerItemFilter ==
    (stored.known /\ stored.slot.kind = "array" /\ StartupStep) =>
        Loaded = MapSeq(SelectSeq(stored.slot.arr, WellTypedEntry), toCartItem)

\* C7: if the slot is absent or its content cannot be parsed, the cart is
\* empty after startup, nothing is dispatched, and no error is raised.
C7_AbsentOrUnparsableStartsEmpty ==
    (stored.known /\ stored.slot.kind \in {"absent", "empty", "garbage"}) =>
        /\ phase = "ready"
        /\ items = <<>>
        /\ pendingLoad = <<>>
        /\ ~escaped

C7_Witness ==
    /\ stored.known
    /\ stored.slot.kind = "garbage"
    /\ lastAction = "MOUNT"
    /\ phase = "ready"
    /\ items = <<>>

\* C8: after a mutating operation and its save effect, if setItem did not
\* fail, the slot holds the serialization of exactly the in-memory items,
\* also when the operation left the contents unchanged.
C8_SlotMirrorsCart ==
    (MutationStep /\ ~writeFailed) => localStorage = stringify(items)

C8_Witness ==
    /\ lastAction = "REMOVE_ITEM"
    /\ contentsUnchanged
    /\ ~writeFailed
    /\ failures >= 1
    /\ Len(items) >= 1
    /\ localStorage = stringify(items)

\* C9: when the write of a mutating operation fails, no error reaches the
\* caller, the in-memory cart is the reducer's result as if the write had
\* succeeded, the store stays usable, and the reads follow that cart.
C9_WriteFailureSwallowed ==
    (MutationStep /\ writeFailed) =>
        /\ ~escaped
        /\ phase = "ready"
        /\ items = ifSaved
        /\ getItemCount(items) = getItemCount(ifSaved)
        /\ getTotalPrice(items) = getTotalPrice(ifSaved)
        /\ ENABLED clearCart(TRUE)

C9_Witness ==
    /\ lastAction = "ADD_ITEM"
    /\ writeFailed
    /\ Len(items) >= 1
    /\ localStorage # stringify(items)
    /\ getItemCount(items) >= 1

\* C10: store creation reads the slot and does not write it: until the first
\* mutating operation the slot's content is what it was before startup.
C10_StartupDoesNotWrite ==
    (stored.known /\ StartupStep) => localStorage = stored.slot

\* -------------------------------------------------------- order creation
\* C11 as stated: when order creation succeeds the caller invokes clear();
\* after the success handler and its save the cart is empty, the item count
\* and the total price are 0 and the slot holds an empty array.
C11_SuccessEmptiesCartAndSlot ==
    [][\A k \in 1..MaxInFlight, ok \in BOOLEAN :
          OrderSuccess(k, ok) =>
              /\ items' = <<>>
              /\ getItemCount(items') = 0
              /\ getTotalPrice(items') = 0
              /\ localStorage' = stringify(<<>>)]_vars

\* C11 amended: when order creation succeeds the caller invokes clear();
\* afterwards the cart is empty and the item count and the total price are
\* 0; the slot holds an empty array if its write did not fail, and is what
\* it was before the handler if the write failed.
C11_SuccessEmptiesCart ==
    [][\A k \in 1..MaxInFlight, ok \in BOOLEAN :
          OrderSuccess(k, ok) =>
              /\ lastAction' = "CLEAR_CART"
              /\ items' = <<>>
              /\ getItemCount(items') = 0
              /\ getTotalPrice(items') = 0
              /\ ok => localStorage' = stringify(<<>>)
              /\ ~ok => localStorage' = localStorage]_vars

C11_Witness ==
    /\ route = "confirmation"
    /\ lastAction = "CLEAR_CART"
    /\ ~contentsUnchanged
    /\ ~writeFailed
    /\ items = <<>>
    /\ localStorage = stringify(<<>>)

\* C12 as stated: when order creation fails the failure handler changes
\* nothing in the cart: the items and the slot are exactly what they were
\* when the order was submitted.
C12_FailureKeepsSubmittedCart ==
    [][\A k \in 1..MaxInFlight, ok \in BOOLEAN :
          OrderError(k, ok) =>
              /\ items' = inFlight[k].cart
              /\ localStorage' = inFlight[k].slot]_vars

\* C12 amended: the failure handler changes nothing in the cart: the items
\* and the slot are what they were before the handler ran; when no cart
\* operation ran while the request was pending they are what they were at
\* submission and map to the same order, and on the page that sent the
\* request the form can be submitted again.
C12_FailureHandlerLeavesCart ==
    [][\A k \in 1..MaxInFlight, ok \in BOOLEAN :
          OrderError(k, ok) =>
              /\ items' = items
              /\ localStorage' = localStorage
              /\ ~inFlight[k].touched =>
                     /\ items' = inFlight[k].cart
                     /\ localStorage' = inFlight[k].slot
                     /\ orderItems(items') = inFlight[k].order
              /\ inFlight[k].own =>
                     /\ route' = "checkout"
                     /\ phase' = "ready"
                     /\ Len(items') > 0
                     /\ \A j \in 1..Len(inFlight') : ~inFlight'[j].own]_vars

C12_Witness ==
    /\ lastAction = "ORDER_ERROR"
    /\ route = "checkout"
    /\ phase = "ready"
    /\ Len(items) > 0
    /\ localStorage = stringify(items)
    /\ inFlight = <<>>

\* C13: every clear of the cart is the response to a confirmed order: each
\* step that dispatches CLEAR_CART is the success handler of a pending
\* createOrder request, and no other step calls clear().
C13_ClearOnlyOnOrderSuccess ==
    [][lastAction' = "CLEAR_CART" =>
          \E k \in 1..Len(inFlight), ok \in BOOLEAN : OrderSuccess(k, ok)]_vars

C13_Witness ==
    /\ lastAction = "CLEAR_CART"
    /\ route = "confirmation"
    /\ contentsUnchanged
    /\ items = <<>>

\* ------------------------------------------------ the four operations
\* The first line with the given id (the one state.items.find returns).
FirstWithId(its, id) ==
    CHOOSE k \in 1..Len(its) :
        its[k].id = id /\ \A j \in 1..(k - 1) : its[j].id # id

\* The lines with another id, in order.
OtherLines(its, id) == LET Other(it) == it.id # id IN SelectSeq(its, Other)

\* C14: setQuantity(id, q) on a cart with a line for id: for q >= 1 that
\* line gets quantity q and keeps its other fields, for q <= 0 it is removed;
\* every other line and the order of the lines are unchanged.
C14_SetQuantity ==
    [][\A id \in Ids, q \in QuantityInputs, ok \in BOOLEAN :
          (updateQuantity(id, q, ok) /\ HasId(items, id)) =>
              LET k == FirstWithId(items, id) IN
              IF q >= 1
              THEN items' = [items EXCEPT ![k].quantity = q]
              ELSE items' = [i \in 1..(Len(items) - 1) |->
                                 IF i < k THEN items[i] ELSE items[i + 1]]]_vars

\* C15: setQuantity(id, q) with an id that matches no line leaves the item
\* collection as it was.
C15_SetQuantityUnknownId ==
    [][\A id \in Ids, q \in QuantityInputs, ok \in BOOLEAN :
          (updateQuantity(id, q, ok) /\ ~HasId(items, id)) => items' = items]_vars

\* C16: add of a candidate whose id is in the cart increments that line's
\* quantity by 1, keeps its name, price and image and its position, and
\* leaves all other lines unchanged.
C16_AddExisting ==
    [][\A p \in Candidates, ok \in BOOLEAN :
          (addItem(p, ok) /\ HasId(items, p.id)) =>
              LET k == FirstWithId(items, p.id) IN
              items' = [items EXCEPT ![k].quantity = items[k].quantity + 1]]_vars

\* C17: add of a candidate whose id is not in the cart appends one line at
\* the end with quantity 1 and the candidate's id, name, price and image;
\* the lines already present and their order are unchanged.
C17_AddNew ==
    [][\A p \in Candidates, ok \in BOOLEAN :
          (addItem(p, ok) /\ ~HasId(items, p.id)) =>
              /\ Len(items') = Len(items) + 1
              /\ SubSeq(items', 1, Len(items)) = items
              /\ items'[Len(items')] = CartItem(p.id, p.name, p.price, 1, p.image)]_vars

C17_Witness ==
    /\ lastAction = "ADD_ITEM"
    /\ Len(items) = 2
    /\ items[1].id = 1
    /\ items[2] = CartItem(2, "Bag", 20, 1, JStr(""))

\* C18: remove(id) deletes the line matching id when present and changes
\* nothing when absent; it raises no error and the other lines keep their
\* fields and their order.
C18_Remove ==
    [][\A id \in Ids, ok \in BOOLEAN :
          removeItem(id, ok) =>
              /\ ~HasId(items', id)
              /\ OtherLines(items', id) = OtherLines(items, id)
              /\ (~HasId(items, id) => items' = items)
              /\ ~escaped'
              /\ phase' = "ready"]_vars

C18_Witness ==
    /\ lastAction = "REMOVE_ITEM"
    /\ ~contentsUnchanged
    /\ Len(items) = 1
    /\ items[1].id = 2
    /\ items[1].quantity = 2

\* The sums written out over the lines, from the last line to the first.
RECURSIVE SumOfPriceTimesQuantity(_)
SumOfPriceTimesQuantity(its) ==
    IF its = <<>> THEN 0
    ELSE SumOfPriceTimesQuantity(SubSeq(its, 1, Len(its) - 1))
         + its[Len(its)].price * its[Len(its)].quantity

RECURSIVE SumOfQuantities(_)
SumOfQuantities(its) ==
    IF its = <<>> THEN 0
    ELSE SumOfQuantities(SubSeq(its, 1, Len(its) - 1)) + its[Len(its)].quantity

\* C19: in every reachable cart state getTotalPrice() is the sum over the
\* current lines of price * quantity, and 0 for an empty cart.
C19_TotalPrice ==
    /\ getTotalPrice(items) = SumOfPriceTimesQuantity(items)
    /\ items = <<>> => getTotalPrice(items) = 0

C19_Witness ==
    /\ Len(items) = 2
    /\ items[1].quantity = 2
    /\ getTotalPrice(items) = 320

\* C20: in every reachable cart state getItemCount() is the sum of the
\* quantities of the current lines, not the number of lines, and 0 for an
\* empty cart.
C20_ItemCount ==
    /\ getItemCount(items) = SumOfQuantities(items)
    /\ items = <<>> => getItemCount(items) = 0

C20_Witness ==
    /\ Len(items) = 1
    /\ items[1].quantity = MaxQuantity
    /\ getItemCount(items) = MaxQuantity

\* ------------------------------------------------------------- clear
\* C21: clear() is idempotent: on an empty cart it leaves the cart empty,
\* and from any cart the cart is empty after a first clear() and after a
\* second one that follows it.
C21_ClearIdempotent ==
    [][\A ok \in BOOLEAN :
          clearCart(ok) =>
              /\ items' = <<>>
              /\ items = <<>> => items' = items
              /\ cartReducer(items', CLEAR_CART) = items'
              /\ phase' = "ready"]_vars

C21_Witness ==
    /\ lastAction = "CLEAR_CART"
    /\ contentsUnchanged
    /\ phase = "ready"
    /\ items = <<>>
    /\ route = "shop"

\* ---------------------------------------------------------------- two tabs
\* The in-memory cart of the open tab that wrote the slot last.
CartOfLastWriter == IF lastWriter = "this" THEN items ELSE background.items

\* The last setItem of that tab raised.
LastWriterHasUnsavedCart ==
    IF lastWriter = "this" THEN writeFailed ELSE background.writeFailed

\* C22 as stated: with two tabs on one slot, after any interleaving of their
\* operations the slot holds the serialized in-memory cart of the tab that
\* made the most recent successful write.
C22_SlotIsLastWritersCart ==
    lastWriter # "none" => localStorage = stringify(CartOfLastWriter)

\* C22 amended: the slot holds the serialized in-memory cart of the tab that
\* made the most recent successful write, whatever the other tab holds, as
\* long as no later write of that tab has failed; a step that makes no
\* successful write leaves the slot as it is.
C22_LastWriterWins ==
    /\ []((lastWriter # "none" /\ ~LastWriterHasUnsavedCart) =>
             localStorage = stringify(CartOfLastWriter))
    /\ [][(lastWriter' # "this" \/ writeFailed') => localStorage' = localStorage]_vars

C22_Witness ==
    /\ lastWriter = "this"
    /\ ~writeFailed
    /\ phase = "ready"
    /\ background.phase = "ready"
    /\ Len(items) = 1
    /\ Len(background.items) = 1
    /\ items[1].id # background.items[1].id
    /\ localStorage = stringify(items)

\* ------------------------------------------------------------------ Header
\* C23: the header's cart link shows 'Cart (N)' with N = getItemCount() for
\* every count N >= 0, 'Cart (0)' for an empty cart included.
C23_HeaderShowsCount ==
    (phase \in {"loading", "ready"} /\ getItemCount(items) >= 0) =>
        HeaderCartLink(items) = LinkText("Cart", TRUE, getItemCount(items))

\* ------------------------------------------------ orders and the cart
\* C27: the clear() issued on order success discards only lines that were
\* part of the order that succeeded, with the quantity that was ordered.
C27_ClearDiscardsOnlyOrderedLines ==
    [][\A k \in 1..MaxInFlight, ok \in BOOLEAN :
          OrderSuccess(k, ok) =>
              \A i \in 1..Len(items) :
                  (\A j \in 1..Len(items') : items'[j] # items[i]) =>
                      \E e \in 1..Len(inFlight[k].order) :
                          /\ inFlight[k].order[e].product_id = items[i].id
                          /\ inFlight[k].order[e].quantity = items[i].quantity]_vars

\* C28: at most one createOrder request is pending at any time, so one cart
\* content never produces two orders.
C28_AtMostOneInFlight ==
    /\ Len(inFlight) <= 1
    /\ \A j, k \in 1..Len(inFlight) : (j # k) => inFlight[j].order # inFlight[k].order

\* C29: each order submitted has one entry per cart line at submission, in
\* cart order, with the line's id as product_id and the line's quantity,
\* and no order is submitted from an empty cart.
C29_OrderMirrorsCart ==
    /\ [][\A valid, ok \in BOOLEAN :
            (handleSubmit(valid, ok) /\ Len(inFlight') > Len(inFlight)) =>
                LET order == inFlight'[Len(inFlight')].order IN
                /\ Len(items) > 0
                /\ Len(order) = Len(items)
                /\ \A i \in 1..Len(items) :
                       /\ order[i].product_id = items[i].id
                       /\ order[i].quantity = items[i].quantity]_vars
    /\ [](\A k \in 1..Len(inFlight) : Len(inFlight[k].order) > 0)

C29_Witness ==
    /\ lastAction = "SUBMIT"
    /\ Len(inFlight) = 1
    /\ Len(items) = 1
    /\ items[1].quantity = 2
    /\ inFlight[1].order = <<[product_id |-> items[1].id, quantity |-> 2]>>

\* ----------------------------------------------------------- authentication
\* C24: after logout() completes, whether the backend call succeeded or
\* failed, auth_token and auth_user are absent and the context's user is null.
C24_LogoutClears ==
    [][\A status \in Statuses :
          LogoutSettles(status) =>
              /\ auth'.token = "none"
              /\ auth'.savedUser = "none"
              /\ auth'.user = "none"]_vars

C24_Witness ==
    /\ auth.open
    /\ auth.lastCall = "logout"
    /\ auth.lastStatus = 500
    /\ auth.token = "none"
    /\ auth.savedUser = "none"
    /\ auth.user = "none"

\* C25: a token found in storage at load is verified with GET /auth/me, so
\* once initialization has finished no unverified token is left in storage:
\* the user is logged in, or the auth storage is cleared.
C25_NoUnverifiedTokenAfterInit ==
    (auth.open /\ ~auth.isLoading /\ auth.token # "none") => auth.verified

\* C26: every response with status 401 clears auth_token and auth_user and,
\* unless the path is /login already, leads to /login; the error still
\* reaches the caller of the request.
C26_UnauthorizedClearsAndRedirects ==
    [][(auth' # auth /\ auth'.lastStatus = 401) =>
          /\ auth'.token = "none"
          /\ auth'.savedUser = "none"
          /\ auth'.path = "/login"
          /\ auth'.caught]_vars

C26_Witness ==
    /\ auth.open
    /\ auth.lastCall = "api"
    /\ auth.lastStatus = 401
    /\ auth.caught
    /\ auth.path = "/login"
    /\ auth.token = "none"
    /\ auth.savedUser = "none"

\* C30: the children of ProtectedRoute and of AdminRoute are rendered only
\* when isLoading is false and user is set, those of AdminRoute only for a
\* user with is_admin; a visitor without user is sent to /login and is not
\* on a guarded path.
C30_RouteGuards ==
    /\ (auth.path \in ProtectedPaths \cup AdminPaths /\ RouteElement(auth) = "children") =>
           /\ ~auth.isLoading
           /\ auth.user # "none"
           /\ auth.path \in AdminPaths => is_admin(auth.user)
    /\ (auth.open /\ ~auth.isLoading /\ auth.user = "none") =>
           auth.path \notin ProtectedPaths \cup AdminPaths

C30_Witness ==
    /\ auth.path \in AdminPaths
    /\ auth.user = "admin"
    /\ RouteElement(auth) = "children"

====
